---- MODULE Spec2Model ----
(***************************************************************************)
(* Model of crosbymichael/cryptd: selective encryption / decryption of the *)
(* layers of a container image.                                            *)
(*                                                                         *)
(*   Spec           EncryptImage / DecryptImage under a lease              *)
(*   SpecFilter     filterLayerDescriptors (layer / platform selection)    *)
(*   SpecRecipients processRecipientKeys (recipients by protocol)          *)
(*   SpecKeys       processPrivateKeyFiles (keys, key rings, passwords)    *)
(*   SpecPayload    the payload WithDecryptedImageUnpack hands to the      *)
(*                  stream command                                         *)
(*   SpecEncrypt    the encrypt command, from its recipients to the        *)
(*                  combined encryption configuration                      *)
(*   SpecStream     the stream command's copy loop (SpecStreamLive: with   *)
(*                  weak fairness, for termination)                        *)
(*                                                                         *)
(* Go strings that the code splits or scans are modelled as sequences of   *)
(* one-character strings, so that strings.Index, strings.Split and         *)
(* strings.HasPrefix are computed and not assumed.                         *)
(***************************************************************************)
EXTENDS Integers, Sequences, FiniteSets, TLC

(***************************************************************************)
(* Bounds of the model.                                                    *)
(***************************************************************************)
\* largest number of layers of one platform of an image
MaxLayers == 3
\* largest number of platforms (manifests) of an image
MaxPlatforms == 2

Range(s) == {s[i] : i \in 1..Len(s)}

(***************************************************************************)
(* Platforms.  ocispec.Platform values are records; a descriptor holds a   *)
(* POINTER to one (Descriptor.Platform is *ocispec.Platform), modelled as  *)
(* an address into PlatformHeap.  Address 0 is the nil pointer.            *)
(***************************************************************************)
Platform(os, arch, variant) == [os |-> os, arch |-> arch, variant |-> variant]

NilPlatform == 0

\* The platform objects of the manifests of an image, by address.  The
\* producer of the descriptor list (images.GetImageLayerDescriptors) gives
\* every layer of one manifest the same non-nil pointer and each manifest its
\* own.  Addresses 1 and 3 hold different spellings of the same platform.
PlatformHeap ==
    (1 :> Platform("linux", "amd64", "")) @@
    (2 :> Platform("linux", "arm64", "")) @@
    (3 :> Platform("linux", "x86_64", "")) @@
    (4 :> Platform("linux", "arm64", "v8"))

PlatformAddrs == 1..(MaxPlatforms + 1)

\* platforms.Normalize, as used by the matcher and by platforms.Parse
NormalizeArch(arch, variant) ==
    CASE arch = "x86_64"  -> [arch |-> "amd64", variant |-> variant]
      [] arch = "aarch64" -> [arch |-> "arm64", variant |-> IF variant = "v8" THEN "" ELSE variant]
      [] arch = "arm64"   -> [arch |-> "arm64", variant |-> IF variant = "v8" THEN "" ELSE variant]
      [] OTHER            -> [arch |-> arch, variant |-> variant]

Normalize(p) ==
    LET n == NormalizeArch(p.arch, p.variant)
    IN  Platform(p.os, n.arch, n.variant)

\* platforms.NewMatcher(m).Match(p): equality of the normalized platforms
\* (compatibility matching, not equality of the values as written)
MatcherMatch(m, p) == Normalize(m) = Normalize(p)

\* platforms.Parse on the specifier strings the model uses: an error, or the
\* normalized platform
ParseSpecifier(specifier) ==
    CASE specifier = "linux/amd64"  -> [err |-> "nil", spec |-> Platform("linux", "amd64", "")]
      [] specifier = "linux/x86_64" -> [err |-> "nil", spec |-> Normalize(Platform("linux", "x86_64", ""))]
      [] specifier = "linux/arm64"  -> [err |-> "nil", spec |-> Platform("linux", "arm64", "")]
      [] OTHER                      -> [err |-> "ErrInvalidPlatform", spec |-> Platform("", "", "")]

\* parsePlatformArray: the first specifier that does not parse ends the call
\* with its error and an empty list
RECURSIVE parsePlatformArrayFrom(_, _, _)
parsePlatformArrayFrom(specifiers, i, speclist) ==
    IF i > Len(specifiers) THEN [err |-> "nil", pl |-> speclist]
    ELSE LET r == ParseSpecifier(specifiers[i])
         IN  IF r.err # "nil" THEN [err |-> r.err, pl |-> <<>>]
             ELSE parsePlatformArrayFrom(specifiers, i + 1, Append(speclist, r.spec))

parsePlatformArray(specifiers) == parsePlatformArrayFrom(specifiers, 1, <<>>)

(***************************************************************************)
(* Layer selection.                                                        *)
(***************************************************************************)
\* ocispec.Descriptor of a layer: its digest and its platform pointer
Descriptor(digest, platform) == [digest |-> digest, platform |-> platform]

\* LayerInfo
LayerInfo(index, desc) == [Index |-> index, Descriptor |-> desc]

isUserSelectedLayerNoNeg(layerIndex, layersTotal, layers) ==
    Len(layers) = 0 \/ \E k \in 1..Len(layers) : layers[k] = layerIndex

isUserSelectedLayer(layerIndex, layersTotal, layers) ==
    IF Len(layers) = 0 THEN TRUE
    ELSE LET negNumber == layerIndex - layersTotal
         IN  \E k \in 1..Len(layers) : layers[k] = negNumber \/ layers[k] = layerIndex

\* platform is a pointer, dereferenced for the matcher
isUserSelectedPlatform(platform, platformList) ==
    IF Len(platformList) = 0 THEN TRUE
    ELSE \E k \in 1..Len(platformList) :
            MatcherMatch(PlatformHeap[platform], platformList[k])

countLayersGlobal(descs, platform) == Len(descs)

\* desc.Platform == platform compares pointers
countLayers(descs, platform) ==
    Cardinality({k \in 1..Len(descs) : descs[k].platform = platform})

\* The local variables of filterLayerDescriptors before its loop
FilterInit ==
    [layerInfos |-> <<>>, descs |-> <<>>, curplat |-> NilPlatform,
     layerIndex |-> 0, layersTotal |-> 0]

CursorNoReset(st, alldescs, desc) ==
    IF st.curplat # desc.platform
    THEN [st EXCEPT !.curplat = desc.platform,
                    !.layerIndex = IF st.curplat = NilPlatform THEN 0 ELSE st.layerIndex + 1,
                    !.layersTotal = countLayers(alldescs, desc.platform)]
    ELSE [st EXCEPT !.layerIndex = st.layerIndex + 1]

\* The first statement of the loop body: the platform cursor
Cursor(st, alldescs, desc) ==
    IF st.curplat # desc.platform
    THEN [st EXCEPT !.curplat = desc.platform,
                    !.layerIndex = 0,
                    !.layersTotal = countLayers(alldescs, desc.platform)]
    ELSE [st EXCEPT !.layerIndex = st.layerIndex + 1]

\* One iteration of the loop of filterLayerDescriptors
FilterBody(st, alldescs, layers, pl, desc) ==
    LET c == Cursor(st, alldescs, desc)
    IN  IF isUserSelectedLayer(c.layerIndex, c.layersTotal, layers)
           /\ isUserSelectedPlatform(c.curplat, pl)
        THEN [c EXCEPT !.descs = Append(c.descs, desc),
                       !.layerInfos = Append(c.layerInfos, LayerInfo(c.layerIndex, desc))]
        ELSE c

RECURSIVE FilterFrom(_, _, _, _, _)
FilterFrom(st, i, alldescs, layers, pl) ==
    IF i > Len(alldescs) THEN st
    ELSE FilterFrom(FilterBody(st, alldescs, layers, pl, alldescs[i]), i + 1,
                    alldescs, layers, pl)

\* filterLayerDescriptors: ([]LayerInfo, []Descriptor)
filterLayerDescriptors(alldescs, layers, pl) ==
    LET st == FilterFrom(FilterInit, 1, alldescs, layers, pl)
    IN  [layerInfos |-> st.layerInfos, descs |-> st.descs]

(***************************************************************************)
(* The descriptor lists images.GetImageLayerDescriptors can return: the    *)
(* layers of one manifest after the other, each manifest with its own      *)
(* platform pointer, in manifest order.  The digest of a layer is unique   *)
(* ("own") or the same for the layers at one position of every platform    *)
(* ("shared", a base layer common to the platforms).                       *)
(***************************************************************************)
DigestSchemes == {"own", "shared"}

LayerDigest(scheme, addr, k) ==
    IF scheme = "shared" THEN <<"sha256", 0, k>> ELSE <<"sha256", addr, k>>

ManifestLayers(scheme, addr, n) ==
    [k \in 1..n |-> Descriptor(LayerDigest(scheme, addr, k), addr)]

\* sequences of distinct platform addresses, at most MaxPlatforms long
RECURSIVE AddrLists(_)
AddrLists(n) ==
    IF n = 0 THEN {<<>>}
    ELSE LET shorter == AddrLists(n - 1)
         IN  shorter \cup {Append(s, a) : s \in {t \in shorter : Len(t) = n - 1},
                                          a \in PlatformAddrs}

DistinctAddrLists ==
    {s \in AddrLists(MaxPlatforms) :
        Len(s) >= 1 /\ \A i, j \in 1..Len(s) : i # j => s[i] # s[j]}

RECURSIVE Flatten(_, _, _)
Flatten(scheme, addrs, counts) ==
    IF Len(addrs) = 0 THEN <<>>
    ELSE ManifestLayers(scheme, addrs[1], counts[1])
         \o Flatten(scheme, Tail(addrs), Tail(counts))

ImageLayerLists ==
    {Flatten(scheme, addrs, counts) :
        scheme \in DigestSchemes,
        addrs \in DistinctAddrLists,
        counts \in [1..MaxPlatforms -> 1..MaxLayers]}

\* the --layer selections and --platform filters of the model
LayerSelections ==
    {<<>>, <<0>>, <<1>>, <<2>>, <<-1>>, <<-2>>, <<0, -1>>}

PlatformFilters ==
    {<<>>, <<"linux/amd64">>, <<"linux/arm64">>, <<"linux/x86_64", "linux/arm64">>}

(***************************************************************************)
(* filterLayerDescriptors as a state machine: one step per loop iteration. *)
(***************************************************************************)
VARIABLES
    f_pc,        \* "loop" | "done" | "idle"
    f_alldescs,  \* argument alldescs
    f_layers,    \* argument layers
    f_pl,        \* argument pl (parsed platforms)
    f_i,         \* position of the range loop in alldescs
    f_st,        \* the function's local variables
    f_ret        \* what the function returned

filterVars == <<f_pc, f_alldescs, f_layers, f_pl, f_i, f_st, f_ret>>

FilterRetNone == [layerInfos |-> <<>>, descs |-> <<>>]

FilterIdle ==
    /\ f_pc = "idle"
    /\ f_alldescs = <<>>
    /\ f_layers = <<>>
    /\ f_pl = <<>>
    /\ f_i = 0
    /\ f_st = FilterInit
    /\ f_ret = FilterRetNone

FilterStart ==
    /\ f_pc = "loop"
    /\ f_alldescs \in ImageLayerLists
    /\ f_layers \in LayerSelections
    /\ f_pl \in {parsePlatformArray(s).pl : s \in PlatformFilters}
    /\ f_i = 1
    /\ f_st = FilterInit
    /\ f_ret = FilterRetNone

FilterIter ==
    /\ f_pc = "loop"
    /\ f_i <= Len(f_alldescs)
    /\ f_st' = FilterBody(f_st, f_alldescs, f_layers, f_pl, f_alldescs[f_i])
    /\ f_i' = f_i + 1
    /\ UNCHANGED <<f_pc, f_alldescs, f_layers, f_pl, f_ret>>

FilterReturn ==
    /\ f_pc = "loop"
    /\ f_i > Len(f_alldescs)
    /\ f_ret' = [layerInfos |-> f_st.layerInfos, descs |-> f_st.descs]
    /\ f_pc' = "done"
    /\ UNCHANGED <<f_alldescs, f_layers, f_pl, f_i, f_st>>

(***************************************************************************)
(* CryptoClient.EncryptImage / CryptoClient.DecryptImage.  The two methods *)
(* differ only in the transform they call (imgenc.EncryptImage or          *)
(* imgenc.DecryptImage); cop says which method is running.                 *)
(***************************************************************************)
\* how many calls one client makes, one after the other
MaxCalls == 2

\* images.Image: the record the image service keeps
ImageRecord(name, target, labels) == [name |-> name, target |-> target, labels |-> labels]

\* the nil containerd.Image
NilImage == ImageRecord("<nil>", <<"nil">>, {})

\* the image the store holds before the first call
OrigImage == ImageRecord("docker.io/library/app:latest", <<"sha256:app">>, {"io.cri=managed"})

ImageNames == {"", "docker.io/library/app:latest", "app:enc"}

\* images.GetImageLayerDescriptors on a target: linux/amd64 with three layers
\* and linux/arm64 with two
LayersOfTarget(target) ==
    [k \in 1..3 |-> Descriptor(<<target, 1, k>>, 1)]
    \o [k \in 1..2 |-> Descriptor(<<target, 2, k>>, 2)]

\* the []string of WithPlatforms and the []int32 of WithLayers
CallPlatforms == {<<>>, <<"linux/amd64">>, <<"linux/amd64", "windows//">>}

CallLayers == {<<>>, <<-1>>, <<3>>}

TransformErrors == {"ErrTransformIO", "ErrTransformKey"}

VARIABLES
    pc,         \* where the running call is: "idle", "parse", "filter", "lease",
                \* "transform", "register", "returned"
    cop,        \* "encrypt" | "decrypt"
    image,      \* argument image (the original handle)
    name,       \* argument name
    optConfig,  \* CryptOptConfig after the opts ran
    pl,         \* parsed platforms
    lf,         \* the layer filter: the digests it answers true for
    deferred,   \* the deferred calls of the running call
    leases,     \* the leases that are active
    desc,       \* descriptor returned by the transform
    tres,       \* the other results of the transform: whether it was called,
                \* modified and err
    images,     \* the image service: its records
    images0,    \* the image service when the call started
    ret,        \* what the call returned: [image, err]
    calls,      \* the calls made to the client, the transform and the image
                \* service during the running call, in order
    ncalls      \* calls started so far

cryptVars == <<pc, cop, image, name, optConfig, pl, lf, deferred, leases, desc, tres,
               images, images0, ret, calls, ncalls>>

NoRet == [image |-> NilImage, err |-> "none"]

NotTransformed == [called |-> FALSE, modified |-> FALSE, err |-> "none"]

CryptInit ==
    /\ pc = "idle"
    /\ cop = "encrypt"
    /\ image = NilImage
    /\ name = ""
    /\ optConfig = [Platforms |-> <<>>, Layers |-> <<>>]
    /\ pl = <<>>
    /\ lf = {}
    /\ deferred = <<>>
    /\ leases = 0
    /\ desc = <<"nil">>
    /\ tres = NotTransformed
    /\ images = {OrigImage}
    /\ images0 = {OrigImage}
    /\ ret = NoRet
    /\ calls = <<>>
    /\ ncalls = 0

DeferredOnSuccessOnly(dfr, err) == IF err = "nil" THEN dfr ELSE <<>>

\* defer done(ctx): the deferred calls run when the function returns, whatever
\* it returns
DeferredOnExit(dfr, err) == dfr

\* A return statement: the results are set, the deferred calls run (done(ctx)
\* deletes the lease).
Return(img, err) ==
    LET run == DeferredOnExit(deferred, err)
    IN  /\ ret' = [image |-> img, err |-> err]
        /\ leases' = leases - Len(run)
        /\ calls' = calls \o run
        /\ deferred' = <<>>
        /\ pc' = "returned"

\* EncryptImage(ctx, image, name, config, opts...) is called; the opts fill
\* optConfig
Call(o, img, n, platforms, layers) ==
    /\ pc \in {"idle", "returned"}
    /\ ncalls < MaxCalls
    /\ ncalls' = ncalls + 1
    /\ cop' = o
    /\ image' = img
    /\ name' = n
    /\ optConfig' = [Platforms |-> platforms, Layers |-> layers]
    /\ pl' = <<>>
    /\ lf' = {}
    /\ desc' = <<"nil">>
    /\ tres' = NotTransformed
    /\ deferred' = <<>>
    /\ images0' = images
    /\ ret' = NoRet
    /\ calls' = <<>>
    /\ pc' = "parse"
    /\ UNCHANGED <<leases, images>>

\* pl, err := parsePlatformArray(optConfig.Platforms)
ParsePlatforms ==
    /\ pc = "parse"
    /\ LET r == parsePlatformArray(optConfig.Platforms)
       IN  IF r.err # "nil"
           THEN Return(NilImage, r.err) /\ UNCHANGED pl
           ELSE /\ pl' = r.pl
                /\ pc' = "filter"
                /\ UNCHANGED <<ret, leases, calls, deferred>>
    /\ UNCHANGED <<cop, image, name, optConfig, lf, desc, tres, images, images0, ncalls>>

\* createLayerFilter: the digests of the descriptors filterLayerDescriptors
\* selects; lf(d) compares d.Digest with each of them
createLayerFilter(target, layers, platformList) ==
    {d.digest : d \in Range(filterLayerDescriptors(LayersOfTarget(target), layers, platformList).descs)}

CreateLayerFilterOk ==
    /\ pc = "filter"
    /\ lf' = createLayerFilter(image.target, optConfig.Layers, pl)
    /\ pc' = "lease"
    /\ UNCHANGED <<cop, image, name, optConfig, pl, deferred, leases, desc, tres,
                   images, images0, ret, calls, ncalls>>

\* images.GetImageLayerDescriptors failed
CreateLayerFilterErr ==
    /\ pc = "filter"
    /\ Return(NilImage, "ErrLayerDescriptors")
    /\ UNCHANGED <<cop, image, name, optConfig, pl, lf, desc, tres, images, images0, ncalls>>

\* ctx, done, err := c.client.WithLease(ctx); defer done(ctx)
WithLeaseOk ==
    /\ pc = "lease"
    /\ leases' = leases + 1
    /\ calls' = Append(calls, "WithLease")
    /\ deferred' = <<"done">> \o deferred
    /\ pc' = "transform"
    /\ UNCHANGED <<cop, image, name, optConfig, pl, lf, desc, tres, images, images0, ret, ncalls>>

WithLeaseErrIgnored ==
    /\ pc = "lease"
    /\ calls' = Append(calls, "WithLease failed")
    /\ pc' = "transform"
    /\ UNCHANGED <<cop, image, name, optConfig, pl, lf, deferred, leases, desc, tres,
                   images, images0, ret, ncalls>>

\* ctx, done, err := c.client.WithLease(ctx); if err != nil { return nil, err }
WithLeaseErr ==
    /\ pc = "lease"
    /\ calls' = Append(calls, "WithLease failed")
    /\ ret' = [image |-> NilImage, err |-> "ErrLease"]
    /\ leases' = leases - Len(DeferredOnExit(deferred, "ErrLease"))
    /\ deferred' = <<>>
    /\ pc' = "returned"
    /\ UNCHANGED <<cop, image, name, optConfig, pl, lf, desc, tres, images, images0, ncalls>>

\* the name of the transform in the call log
Transform == IF cop = "encrypt" THEN "imgenc.EncryptImage" ELSE "imgenc.DecryptImage"

\* desc, modified, err := imgenc.EncryptImage(...): an error
TransformErr(e) ==
    /\ pc = "transform"
    /\ LET log == Append(calls, Transform)
           run == DeferredOnExit(deferred, e)
       IN  /\ calls' = log \o run
           /\ leases' = leases - Len(run)
    /\ ret' = [image |-> NilImage, err |-> e]
    /\ tres' = [called |-> TRUE, modified |-> FALSE, err |-> e]
    /\ deferred' = <<>>
    /\ pc' = "returned"
    /\ UNCHANGED <<cop, image, name, optConfig, pl, lf, desc, images, images0, ncalls>>

IgnoreModified(modified) == FALSE

\* if !modified { return image, nil }
ReturnsOriginal(modified) == ~modified

\* desc, modified, err := imgenc.EncryptImage(...): no error.  The transform
\* changes only layers lf answers true for.
TransformOk(d, modified) ==
    /\ pc = "transform"
    /\ modified => lf # {}
    /\ desc' = d
    /\ tres' = [called |-> TRUE, modified |-> modified, err |-> "nil"]
    /\ IF ReturnsOriginal(modified)
       THEN LET log == Append(calls, Transform)
                run == DeferredOnExit(deferred, "nil")
            IN  /\ calls' = log \o run
                /\ leases' = leases - Len(run)
                /\ ret' = [image |-> image, err |-> "nil"]
                /\ deferred' = <<>>
                /\ pc' = "returned"
       ELSE /\ calls' = Append(calls, Transform)
            /\ pc' = "register"
            /\ UNCHANGED <<ret, leases, deferred>>
    /\ UNCHANGED <<cop, image, name, optConfig, pl, lf, images, images0, ncalls>>

NewImageOldTarget(n, d, img) == ImageRecord(n, img.target, img.labels)

\* newImage := images.Image{Name: name, Target: desc, Labels: image.Labels()}
NewImage(n, d, img) == ImageRecord(n, d, img.labels)

\* the image service refuses an empty name and a name it already holds
CreateAccepts(store, rec) == rec.name # "" /\ \A r \in store : r.name # rec.name

\* i, err := s.Create(ctx, newImage); return containerd.NewImage(c.client, i)
CreateOk ==
    /\ pc = "register"
    /\ LET newImage == NewImage(name, desc, image)
           log == Append(calls, "Create")
           run == DeferredOnExit(deferred, "nil")
       IN  /\ CreateAccepts(images, newImage)
           /\ images' = images \cup {newImage}
           /\ ret' = [image |-> newImage, err |-> "nil"]
           /\ calls' = log \o run
           /\ leases' = leases - Len(run)
    /\ deferred' = <<>>
    /\ pc' = "returned"
    /\ UNCHANGED <<cop, image, name, optConfig, pl, lf, desc, tres, images0, ncalls>>

CreateErr ==
    /\ pc = "register"
    /\ LET newImage == NewImage(name, desc, image)
           e == IF CreateAccepts(images, newImage) THEN "ErrUnavailable" ELSE "ErrCreateRefused"
           log == Append(calls, "Create failed")
           run == DeferredOnExit(deferred, e)
       IN  /\ ret' = [image |-> NilImage, err |-> e]
           /\ calls' = log \o run
           /\ leases' = leases - Len(run)
    /\ deferred' = <<>>
    /\ pc' = "returned"
    /\ UNCHANGED <<cop, image, name, optConfig, pl, lf, desc, tres, images, images0, ncalls>>

\* the descriptor a transform that modified the image returns
TransformedTarget(o, target) == <<o>> \o target

(***************************************************************************)
(* Go strings, as sequences of one-character strings.                      *)
(***************************************************************************)
RECURSIVE IndexFrom(_, _, _)
IndexFrom(str, c, i) ==
    IF i > Len(str) THEN -1
    ELSE IF str[i] = c THEN i - 1
    ELSE IndexFrom(str, c, i + 1)

\* strings.Index(str, c) for a one-character c: zero-based, -1 when absent
StringsIndex(str, c) == IndexFrom(str, c, 1)

\* str[lo:hi] and str[lo:]
Slice(str, lo, hi) == SubSeq(str, lo + 1, hi)

SliceFrom(str, lo) == SubSeq(str, lo + 1, Len(str))

\* strings.Split(str, c)
RECURSIVE StringsSplit(_, _)
StringsSplit(str, c) ==
    LET idx == StringsIndex(str, c)
    IN  IF idx < 0 THEN <<str>>
        ELSE <<Slice(str, 0, idx)>> \o StringsSplit(SliceFrom(str, idx + 1), c)

\* strings.HasPrefix
HasPrefix(str, prefix) ==
    Len(str) >= Len(prefix) /\ SubSeq(str, 1, Len(prefix)) = prefix

Colon == <<":">>

(***************************************************************************)
(* The files the command can read.  A file's content is a record: what it  *)
(* holds (kind), its bytes (text) and, for an encrypted private key, the   *)
(* password that decrypts it (pw).                                         *)
(***************************************************************************)
FileContent(kind, text, pw) == [kind |-> kind, text |-> text, pw |-> pw]

NoData == FileContent("none", <<>>, <<>>)

FileSystem ==
    (<<"k">> :> FileContent("PUBLIC KEY", <<"K">>, <<>>)) @@
    (<<"c">> :> FileContent("CERTIFICATE", <<"C">>, <<>>)) @@
    (<<"p">> :> FileContent("PRIVATE KEY", <<"P">>, <<>>)) @@
    (<<"e">> :> FileContent("ENCRYPTED PRIVATE KEY", <<"E">>, <<"h">>)) @@
    (<<"f">> :> FileContent("ENCRYPTED PRIVATE KEY", <<"F">>, <<"a", ":", "b">>)) @@
    (<<"r">> :> FileContent("GPG SECRET KEYRING", <<"R">>, <<>>)) @@
    (<<"g">> :> FileContent("TEXT", <<"G">>, <<>>)) @@
    (<<"w">> :> FileContent("TEXT", <<"h">>, <<>>))

\* errors of this part of the program: what went wrong, and the file and
\* password the message names
Error(kind, file, password) == [kind |-> kind, file |-> file, password |-> password]

NilErr == Error("nil", <<>>, <<>>)

\* ioutil.ReadFile
ReadFile(path) ==
    IF path \in DOMAIN FileSystem
    THEN [err |-> NilErr, data |-> FileSystem[path]]
    ELSE [err |-> Error("open: no such file or directory", path, <<>>), data |-> NoData]

\* encutils.IsPublicKey, encutils.IsCertificate, encutils.IsGPGPrivateKeyRing
IsPublicKey(data) == data.kind = "PUBLIC KEY"

IsCertificate(data) == data.kind = "CERTIFICATE"

IsGPGPrivateKeyRing(data) == data.kind = "GPG SECRET KEYRING"

(***************************************************************************)
(* processRecipientKeys.                                                   *)
(***************************************************************************)
\* how many recipients one call is given
MaxRecipients == 2

\* the three buckets and the error while the loop runs
RecipientsInit == [gpgRecipients |-> <<>>, pubkeys |-> <<>>, x509s |-> <<>>, err |-> NilErr]

\* return nil, nil, nil, err
RecipientsFail(e) == [gpgRecipients |-> <<>>, pubkeys |-> <<>>, x509s |-> <<>>, err |-> e]

jweAcceptsAnyFile(tmp) == TRUE

\* case "jwe": if !encutils.IsPublicKey(tmp) { return ... }
jweAccepts(tmp) == IsPublicKey(tmp)

\* case "pkcs7": if !encutils.IsCertificate(tmp) { return ... }
pkcs7Accepts(tmp) == IsCertificate(tmp)

\* the body of the loop over the recipients
processRecipient(st, recipient) ==
    LET idx == StringsIndex(recipient, ":")
    IN  IF idx < 0 THEN RecipientsFail(Error("Invalid recipient format", <<>>, <<>>))
        ELSE
        LET protocol == Slice(recipient, 0, idx)
            value == SliceFrom(recipient, idx + 1)
            file == ReadFile(value)
        IN  CASE protocol = <<"p", "g", "p">> ->
                    [st EXCEPT !.gpgRecipients = Append(@, value)]
              [] protocol = <<"j", "w", "e">> ->
                    IF file.err # NilErr
                    THEN RecipientsFail(Error("Unable to read file", value, <<>>))
                    ELSE IF ~jweAccepts(file.data)
                    THEN RecipientsFail(Error("File provided is not a public key", <<>>, <<>>))
                    ELSE [st EXCEPT !.pubkeys = Append(@, file.data)]
              [] protocol = <<"p", "k", "c", "s", "7">> ->
                    IF file.err # NilErr
                    THEN RecipientsFail(Error("Unable to read file", value, <<>>))
                    ELSE IF ~pkcs7Accepts(file.data)
                    THEN RecipientsFail(Error("File provided is not an x509 cert", <<>>, <<>>))
                    ELSE [st EXCEPT !.x509s = Append(@, file.data)]
              [] OTHER ->
                    RecipientsFail(Error("Provided protocol not recognized", <<>>, <<>>))

\* the --recipient values of the model
RecipientStrings ==
    { <<"p", "g", "p", ":", "a">>,
      <<"p", "g", "p", ":", "a", ":", "b">>,
      <<"j", "w", "e", ":", "k">>,
      <<"j", "w", "e", ":", "c">>,
      <<"j", "w", "e", ":", "n">>,
      <<"p", "k", "c", "s", "7", ":", "c">>,
      <<"p", "k", "c", "s", "7", ":", "k">>,
      <<"p", "g", "p">>,
      <<"s", "s", "h", ":", "a">>,
      <<":", "k">> }

RECURSIVE SeqsUpTo(_, _)
SeqsUpTo(S, n) ==
    IF n = 0 THEN {<<>>}
    ELSE LET shorter == SeqsUpTo(S, n - 1)
         IN  shorter \cup {Append(q, x) : q \in {t \in shorter : Len(t) = n - 1}, x \in S}

VARIABLES
    r_pc,          \* "loop" | "done" | "idle"
    r_recipients,  \* argument recipients
    r_i,           \* position of the range loop
    r_st,          \* the buckets being filled
    r_ret          \* what the call returned

recipientVars == <<r_pc, r_recipients, r_i, r_st, r_ret>>

RecipientsIdle ==
    /\ r_pc = "idle"
    /\ r_recipients = <<>>
    /\ r_i = 0
    /\ r_st = RecipientsInit
    /\ r_ret = RecipientsInit

RecipientsStart ==
    /\ r_pc = "loop"
    /\ r_recipients \in SeqsUpTo(RecipientStrings, MaxRecipients)
    /\ r_i = 1
    /\ r_st = RecipientsInit
    /\ r_ret = RecipientsInit

\* one iteration; an error returns at once
RecipientsIter ==
    /\ r_pc = "loop"
    /\ r_i <= Len(r_recipients)
    /\ LET st == processRecipient(r_st, r_recipients[r_i])
       IN  IF st.err # NilErr
           THEN /\ r_ret' = st
                /\ r_pc' = "done"
                /\ UNCHANGED <<r_st, r_i>>
           ELSE /\ r_st' = st
                /\ r_i' = r_i + 1
                /\ UNCHANGED <<r_pc, r_ret>>
    /\ UNCHANGED r_recipients

\* return gpgRecipients, pubkeys, x509s, nil
RecipientsReturn ==
    /\ r_pc = "loop"
    /\ r_i > Len(r_recipients)
    /\ r_ret' = r_st
    /\ r_pc' = "done"
    /\ UNCHANGED <<r_recipients, r_i, r_st>>

(***************************************************************************)
(* processPwdString and processPrivateKeyFiles.                            *)
(***************************************************************************)
\* how many --key values one call is given
MaxKeys == 2

\* pwd := make([]byte, 64)
PwdBufferSize == 64

\* a []byte that may be nil
NilBytes == [nil |-> TRUE, bytes |-> <<>>]

Bytes(b) == [nil |-> FALSE, bytes |-> b]

\* the open file descriptors a password can be read from, with what a read
\* returns; descriptor 4 is at end of file
FdTable == (3 :> <<"h">>) @@ (4 :> <<>>)

Digits == <<"0", "1", "2", "3", "4", "5", "6", "7", "8", "9">>

IsDigit(c) == \E d \in 1..10 : Digits[d] = c

DigitValue(c) == (CHOOSE d \in 1..10 : Digits[d] = c) - 1

RECURSIVE DecimalValue(_, _)
DecimalValue(str, acc) ==
    IF Len(str) = 0 THEN acc
    ELSE DecimalValue(Tail(str), 10 * acc + DigitValue(str[1]))

\* strconv.Atoi: an optional sign and at least one digit
Atoi(str) ==
    LET signed == Len(str) > 0 /\ str[1] \in {"+", "-"}
        digits == IF signed THEN Tail(str) ELSE str
    IN  IF Len(digits) = 0 \/ \E k \in 1..Len(digits) : ~IsDigit(digits[k])
        THEN [err |-> Error("strconv.Atoi: invalid syntax", <<>>, <<>>), n |-> 0]
        ELSE [err |-> NilErr,
              n |-> IF signed /\ str[1] = "-" THEN 0 - DecimalValue(digits, 0)
                    ELSE DecimalValue(digits, 0)]

Min(a, b) == IF a < b THEN a ELSE b

\* processPwdString: ([]byte, error)
processPwdString(pwdString) ==
    IF HasPrefix(pwdString, <<"f", "i", "l", "e", "=">>)
    THEN LET file == ReadFile(SliceFrom(pwdString, 5))
         IN  IF file.err # NilErr THEN [pwd |-> NilBytes, err |-> file.err]
             ELSE [pwd |-> Bytes(file.data.text), err |-> NilErr]
    ELSE IF HasPrefix(pwdString, <<"p", "a", "s", "s", "=">>)
    THEN [pwd |-> Bytes(SliceFrom(pwdString, 5)), err |-> NilErr]
    ELSE IF HasPrefix(pwdString, <<"f", "d", "=">>)
    THEN LET fdStr == SliceFrom(pwdString, 3)
             fd == Atoi(fdStr)
         IN  IF fd.err # NilErr
             THEN [pwd |-> NilBytes, err |-> Error("could not parse file descriptor", fdStr, <<>>)]
             ELSE IF fd.n < 0
             THEN [pwd |-> NilBytes, err |-> Error("is not a valid file descriptor", fdStr, <<>>)]
             ELSE IF fd.n \notin DOMAIN FdTable \/ Len(FdTable[fd.n]) = 0
             THEN [pwd |-> NilBytes, err |-> Error("could not read from file descriptor", <<>>, <<>>)]
             ELSE LET n == Min(PwdBufferSize, Len(FdTable[fd.n]))
                  IN  [pwd |-> Bytes(SubSeq(FdTable[fd.n], 1, n)), err |-> NilErr]
    ELSE [pwd |-> Bytes(pwdString), err |-> NilErr]

\* encutils.IsPrivateKey(data, password): (bool, error).  An encrypted key
\* needs its password; a key that is not encrypted ignores the password.
IsPrivateKey(data, password) ==
    CASE data.kind = "PRIVATE KEY" -> [ok |-> TRUE, err |-> NilErr]
      [] data.kind = "ENCRYPTED PRIVATE KEY" ->
            IF password.nil
            THEN [ok |-> FALSE, err |-> Error("Missing password for encrypted private key", <<>>, <<>>)]
            ELSE IF password.bytes = data.pw
            THEN [ok |-> TRUE, err |-> NilErr]
            ELSE [ok |-> FALSE, err |-> Error("Wrong password: could not decrypt private key", <<>>, <<>>)]
      [] OTHER -> [ok |-> FALSE, err |-> Error("invalid private key", <<>>, <<>>)]

NeverPasswordError(e) == FALSE

\* encutils.IsPasswordError
IsPasswordError(e) ==
    e.kind \in {"Missing password for encrypted private key",
                "Wrong password: could not decrypt private key"}

\* the four buckets, the error, and the calls made to the key parsers so far
KeysInit ==
    [gpgSecretKeyRingFiles |-> <<>>, gpgSecretKeyPasswords |-> <<>>,
     privkeys |-> <<>>, privkeysPasswords |-> <<>>, err |-> NilErr, log |-> <<>>]

\* return nil, nil, nil, nil, err
KeysFail(st, e) ==
    [gpgSecretKeyRingFiles |-> <<>>, gpgSecretKeyPasswords |-> <<>>,
     privkeys |-> <<>>, privkeysPasswords |-> <<>>, err |-> e, log |-> st.log]

\* a call to a key parser: which, for which input, with which arguments, and
\* the error it returned
ParserCall(fn, input, keyfile, password, e) ==
    [fn |-> fn, input |-> input, keyfile |-> keyfile, password |-> password, err |-> e]

\* the body of the loop over keyFilesAndPwds; input is the position of
\* keyfileAndPwd in the list
processPrivateKeyFile(st, input, keyfileAndPwd) ==
    LET parts == StringsSplit(keyfileAndPwd, ":")
        pwd == IF Len(parts) = 2 THEN processPwdString(parts[2])
               ELSE [pwd |-> NilBytes, err |-> NilErr]
        password == pwd.pwd
        keyfile == parts[1]
        tmp == ReadFile(keyfile)
        isPrivKey == IsPrivateKey(tmp.data, password)
        st1 == [st EXCEPT !.log = Append(@, ParserCall("IsPrivateKey", input, keyfile,
                                                          password, isPrivKey.err))]
        st2 == [st1 EXCEPT !.log = Append(@, ParserCall("IsGPGPrivateKeyRing", input, keyfile,
                                                           password, NilErr))]
    IN  IF pwd.err # NilErr THEN KeysFail(st, pwd.err)
        ELSE IF tmp.err # NilErr THEN KeysFail(st, tmp.err)
        ELSE IF IsPasswordError(isPrivKey.err) THEN KeysFail(st1, isPrivKey.err)
        ELSE IF isPrivKey.ok
        THEN [st1 EXCEPT !.privkeys = Append(@, tmp.data),
                         !.privkeysPasswords = Append(@, password)]
        ELSE IF IsGPGPrivateKeyRing(tmp.data)
        THEN [st2 EXCEPT !.gpgSecretKeyRingFiles = Append(@, tmp.data),
                         !.gpgSecretKeyPasswords = Append(@, password)]
        ELSE KeysFail(st2, Error("unidentified private key in file", keyfile, password.bytes))

\* the --key values of the model
KeyStrings ==
    { <<"p">>,
      <<"p", ":", "p", "a", "s", "s", "=", "h">>,
      <<"e">>,
      <<"e", ":", "p", "a", "s", "s", "=", "h">>,
      <<"e", ":", "p", "a", "s", "s", "=", "x">>,
      <<"e", ":", "h">>,
      <<"e", ":">>,
      <<"e", ":", "f", "i", "l", "e", "=", "w">>,
      <<"e", ":", "f", "i", "l", "e", "=", "n">>,
      <<"e", ":", "f", "d", "=", "3">>,
      <<"e", ":", "f", "d", "=", "4">>,
      <<"e", ":", "f", "d", "=", "x">>,
      <<"e", ":", "f", "d", "=", "-", "1">>,
      <<"f", ":", "p", "a", "s", "s", "=", "a", ":", "b">>,
      <<"f", ":", "a", ":", "b">>,
      <<"r">>,
      <<"r", ":", "p", "a", "s", "s", "=", "h">>,
      <<"g">>,
      <<"g", ":", "h">>,
      <<"n">> }

VARIABLES
    k_pc,               \* "loop" | "done" | "idle"
    k_keyFilesAndPwds,  \* argument keyFilesAndPwds
    k_i,                \* position of the range loop
    k_st,               \* the buckets being filled, and the parser calls
    k_ret               \* what the call returned

keyVars == <<k_pc, k_keyFilesAndPwds, k_i, k_st, k_ret>>

KeysIdle ==
    /\ k_pc = "idle"
    /\ k_keyFilesAndPwds = <<>>
    /\ k_i = 0
    /\ k_st = KeysInit
    /\ k_ret = KeysInit

KeysStart ==
    /\ k_pc = "loop"
    /\ k_keyFilesAndPwds \in SeqsUpTo(KeyStrings, MaxKeys)
    /\ k_i = 1
    /\ k_st = KeysInit
    /\ k_ret = KeysInit

\* one iteration; an error returns at once
KeysIter ==
    /\ k_pc = "loop"
    /\ k_i <= Len(k_keyFilesAndPwds)
    /\ LET st == processPrivateKeyFile(k_st, k_i, k_keyFilesAndPwds[k_i])
       IN  IF st.err # NilErr
           THEN /\ k_ret' = st
                /\ k_st' = [k_st EXCEPT !.log = st.log]
                /\ k_pc' = "done"
                /\ UNCHANGED k_i
           ELSE /\ k_st' = st
                /\ k_i' = k_i + 1
                /\ UNCHANGED <<k_pc, k_ret>>
    /\ UNCHANGED k_keyFilesAndPwds

\* return gpgSecretKeyRingFiles, gpgSecretKeyPasswords, privkeys, privkeysPasswords, nil
KeysReturn ==
    /\ k_pc = "loop"
    /\ k_i > Len(k_keyFilesAndPwds)
    /\ k_ret' = k_st
    /\ k_pc' = "done"
    /\ UNCHANGED <<k_keyFilesAndPwds, k_i, k_st>>

(***************************************************************************)
(* The side-channel payload: ProcessorPayload, its type-tagged envelope    *)
(* (typeurl.MarshalAny in WithDecryptedImageUnpack) and its reading        *)
(* (UnmarshalLayerToolDecryptData).                                        *)
(*                                                                         *)
(* A slice or map that may be nil is a record [nil, elems]; a map's elems  *)
(* is a function from its keys.  JSON values are tagged tuples:            *)
(*   <<"null">>  <<"string", s>>  <<"number", n>>  <<"array", seq>>        *)
(*   <<"object", seq of <<key, value>> >>                                  *)
(* Bytes are numbers 0..15; the text encoding of a []byte (base64 in Go)   *)
(* writes each of them as two base-4 digits.                               *)
(***************************************************************************)
NilColl == [nil |-> TRUE, elems |-> <<>>]

Coll(elems) == [nil |-> FALSE, elems |-> elems]

\* the length Go's len() gives a slice or a map
CollLen(c) == IF c.nil THEN 0 ELSE Cardinality(DOMAIN c.elems)

JNull == <<"null">>

JString(str) == <<"string", str>>

JNumber(n) == <<"number", n>>

JArray(elems) == <<"array", elems>>

JObject(members) == <<"object", members>>

\* the value of a member of a JSON object, or null when it has none
RECURSIVE MemberFrom(_, _, _)
MemberFrom(members, key, i) ==
    IF i > Len(members) THEN JNull
    ELSE IF members[i][1] = key THEN members[i][2]
    ELSE MemberFrom(members, key, i + 1)

Member(obj, key) == IF obj[1] = "object" THEN MemberFrom(obj[2], key, 1) ELSE JNull

\* the members that are kept: omitempty drops a member whose flag is FALSE
RECURSIVE KeepMembers(_)
KeepMembers(flagged) ==
    IF Len(flagged) = 0 THEN <<>>
    ELSE (IF flagged[1][1] THEN <<flagged[1][2]>> ELSE <<>>) \o KeepMembers(Tail(flagged))

\* []byte as text, and back
RECURSIVE EncodeBytes(_)
EncodeBytes(b) ==
    IF Len(b) = 0 THEN <<>>
    ELSE <<b[1] \div 4, b[1] % 4>> \o EncodeBytes(Tail(b))

RECURSIVE DecodeBytes(_)
DecodeBytes(digits) ==
    IF Len(digits) < 2 THEN <<>>
    ELSE <<4 * digits[1] + digits[2]>> \o DecodeBytes(Tail(Tail(digits)))

\* json.Marshal / json.Unmarshal of a []byte: null for nil
MarshalBytes(b) == IF b.nil THEN JNull ELSE JString(EncodeBytes(b.bytes))

UnmarshalBytes(j) == IF j[1] = "null" THEN NilBytes ELSE Bytes(DecodeBytes(j[2]))

\* ... of a [][]byte
MarshalByteLists(l) ==
    IF l.nil THEN JNull
    ELSE JArray([k \in 1..Len(l.elems) |-> MarshalBytes(l.elems[k])])

UnmarshalByteLists(j) ==
    IF j[1] = "null" THEN NilColl
    ELSE Coll([k \in 1..Len(j[2]) |-> UnmarshalBytes(j[2][k])])

\* the keys of the maps of the model, in the order json.Marshal writes them
\* (sorted)
ParameterKeys == <<"privkey-passwords", "privkeys", "x509s">>

AnnotationKeys == <<"org.opencontainers.image.enc.keys.jwe", "org.opencontainers.image.enc.pubopts">>

RECURSIVE MarshalMapFrom(_, _, _)
MarshalMapFrom(m, keys, start) ==
    IF start > Len(keys) THEN <<>>
    ELSE (IF keys[start] \in DOMAIN m THEN <<keys[start]>> ELSE <<>>)
         \o MarshalMapFrom(m, keys, start + 1)

\* the keys of map m, sorted
SortedKeys(m, keys) == MarshalMapFrom(m, keys, 1)

\* map[string][][]byte
MarshalParameters(m) ==
    IF m.nil THEN JNull
    ELSE LET ks == SortedKeys(m.elems, ParameterKeys)
         IN  JObject([k \in 1..Len(ks) |-> <<ks[k], MarshalByteLists(m.elems[ks[k]])>>])

UnmarshalParameters(j) ==
    IF j[1] = "null" THEN NilColl
    ELSE Coll([key \in {j[2][k][1] : k \in 1..Len(j[2])} |->
                  UnmarshalByteLists(MemberFrom(j[2], key, 1))])

\* encconfig.DecryptConfig{Parameters}
DecryptConfig(parameters) == [Parameters |-> parameters]

MarshalDecryptConfig(dc) == JObject(<< <<"Parameters", MarshalParameters(dc.Parameters)>> >>)

UnmarshalDecryptConfig(j) == DecryptConfig(UnmarshalParameters(Member(j, "Parameters")))

\* []string and map[string]string
MarshalStrings(l) ==
    IF l.nil THEN JNull ELSE JArray([k \in 1..Len(l.elems) |-> JString(l.elems[k])])

UnmarshalStrings(j) ==
    IF j[1] = "null" THEN NilColl ELSE Coll([k \in 1..Len(j[2]) |-> j[2][k][2]])

MarshalAnnotations(m) ==
    IF m.nil THEN JNull
    ELSE LET ks == SortedKeys(m.elems, AnnotationKeys)
         IN  JObject([k \in 1..Len(ks) |-> <<ks[k], JString(m.elems[ks[k]])>>])

UnmarshalAnnotations(j) ==
    IF j[1] = "null" THEN NilColl
    ELSE Coll([key \in {j[2][k][1] : k \in 1..Len(j[2])} |-> MemberFrom(j[2], key, 1)[2]])

\* *ocispec.Platform: nil, or a pointer to a value
NilPlatformPtr == [nil |-> TRUE, value |-> Platform("", "", "")]

PlatformPtr(value) == [nil |-> FALSE, value |-> value]

MarshalPlatform(ptr) ==
    JObject(KeepMembers(<<
        <<TRUE, <<"architecture", JString(ptr.value.arch)>> >>,
        <<TRUE, <<"os", JString(ptr.value.os)>> >>,
        <<ptr.value.variant # "", <<"variant", JString(ptr.value.variant)>> >> >>))

StringOr(j, default) == IF j[1] = "string" THEN j[2] ELSE default

UnmarshalPlatform(j) ==
    IF j[1] = "null" THEN NilPlatformPtr
    ELSE PlatformPtr(Platform(StringOr(Member(j, "os"), ""),
                              StringOr(Member(j, "architecture"), ""),
                              StringOr(Member(j, "variant"), "")))

\* ocispec.Descriptor, with all its fields
OCIDescriptor(mediaType, digest, size, urls, annotations, platform) ==
    [MediaType |-> mediaType, Digest |-> digest, Size |-> size, URLs |-> urls,
     Annotations |-> annotations, Platform |-> platform]

\* mediaType, urls, annotations and platform are omitempty
MarshalDescriptor(d) ==
    JObject(KeepMembers(<<
        <<d.MediaType # "", <<"mediaType", JString(d.MediaType)>> >>,
        <<TRUE, <<"digest", JString(d.Digest)>> >>,
        <<TRUE, <<"size", JNumber(d.Size)>> >>,
        <<CollLen(d.URLs) # 0, <<"urls", MarshalStrings(d.URLs)>> >>,
        <<CollLen(d.Annotations) # 0, <<"annotations", MarshalAnnotations(d.Annotations)>> >>,
        <<~d.Platform.nil, <<"platform", MarshalPlatform(d.Platform)>> >> >>))

UnmarshalDescriptor(j) ==
    OCIDescriptor(StringOr(Member(j, "mediaType"), ""),
                  StringOr(Member(j, "digest"), ""),
                  IF Member(j, "size")[1] = "number" THEN Member(j, "size")[2] ELSE 0,
                  UnmarshalStrings(Member(j, "urls")),
                  UnmarshalAnnotations(Member(j, "annotations")),
                  UnmarshalPlatform(Member(j, "platform")))

\* the Go types a typeurl envelope can hold in the model
ProcessorPayload(decryptConfig, descriptor) ==
    [type |-> "cryptd.ProcessorPayload", DecryptConfig |-> decryptConfig,
     Descriptor |-> descriptor]

ZeroDescriptor == OCIDescriptor("", "", 0, NilColl, NilColl, NilPlatformPtr)

\* a value of another registered type; its fields play no part
OtherValue(type) ==
    [type |-> type, DecryptConfig |-> DecryptConfig(NilColl), Descriptor |-> ZeroDescriptor]

\* the nil *cryptd.ProcessorPayload
NilPayload == OtherValue("nil")

\* json.Marshal / json.Unmarshal of a ProcessorPayload, by its json tags
MarshalPayload(v) ==
    JObject(<< <<"decrypt_config", MarshalDecryptConfig(v.DecryptConfig)>>,
               <<"descriptor", MarshalDescriptor(v.Descriptor)>> >>)

UnmarshalPayload(j) ==
    ProcessorPayload(UnmarshalDecryptConfig(Member(j, "decrypt_config")),
                     UnmarshalDescriptor(Member(j, "descriptor")))

PayloadTypeURL == "com.ibm.research.v1.ProcessorPayload"

SpecTypeURL == "types.containerd.io/opencontainers/runtime-spec/1/Spec"

\* typeurl's registry: init() registers ProcessorPayload; the runtime spec is
\* a type other packages register
TypeRegistry ==
    (PayloadTypeURL :> "cryptd.ProcessorPayload") @@ (SpecTypeURL :> "specs.Spec")

\* types.Any
TypesAny(typeUrl, value) == [TypeUrl |-> typeUrl, Value |-> value]

NilAny == TypesAny("", JNull)

\* typeurl.MarshalAny(p) for a *ProcessorPayload
MarshalAny(v) ==
    IF \E url \in DOMAIN TypeRegistry : TypeRegistry[url] = v.type
    THEN [any |-> TypesAny(CHOOSE url \in DOMAIN TypeRegistry : TypeRegistry[url] = v.type,
                      MarshalPayload(v)),
          err |-> "nil"]
    ELSE [any |-> NilAny, err |-> "type not registered"]

\* typeurl.UnmarshalAny: the registered type of the tag, filled from the value
UnmarshalAny(any) ==
    IF any.TypeUrl \notin DOMAIN TypeRegistry
    THEN [v |-> NilPayload, err |-> "type with url not found"]
    ELSE IF TypeRegistry[any.TypeUrl] = "cryptd.ProcessorPayload"
    THEN [v |-> UnmarshalPayload(any.Value), err |-> "nil"]
    ELSE [v |-> OtherValue(TypeRegistry[any.TypeUrl]), err |-> "nil"]

\* proto.Marshal / proto.Unmarshal of a types.Any: field 1 is type_url, field
\* 2 is value; an empty field is not written
ProtoMarshal(any) ==
    KeepMembers(<< <<any.TypeUrl # "", <<1, any.TypeUrl>> >>,
                   <<TRUE, <<2, any.Value>> >> >>)

RECURSIVE ProtoField(_, _, _)
ProtoField(wire, field, default) ==
    IF Len(wire) = 0 THEN default
    ELSE IF wire[1][1] = field THEN wire[1][2]
    ELSE ProtoField(Tail(wire), field, default)

ProtoUnmarshal(wire) == TypesAny(ProtoField(wire, 1, ""), ProtoField(wire, 2, JNull))

AssertAnyType(v) == v.type # "nil"

\* data, ok := v.(*cryptd.ProcessorPayload)
AssertProcessorPayload(v) == v.type = "cryptd.ProcessorPayload"

\* UnmarshalLayerToolDecryptData(decryptData)
UnmarshalLayerToolDecryptData(decryptData) ==
    LET pb == ProtoUnmarshal(decryptData)
        r == UnmarshalAny(pb)
    IN  IF r.err # "nil"
        THEN [data |-> NilPayload, err |-> "could not UnmarshalAny() the decrypt data"]
        ELSE IF ~AssertProcessorPayload(r.v)
        THEN [data |-> NilPayload, err |-> "received an unknown data type"]
        ELSE [data |-> r.v, err |-> "nil"]

\* the decrypt configurations and layer descriptors of the model
ByteStrings == {NilBytes, Bytes(<<>>), Bytes(<<7>>), Bytes(<<3, 12>>)}

ByteLists ==
    {NilColl, Coll(<<>>), Coll(<<Bytes(<<7>>), Bytes(<<3, 12>>)>>)}
    \cup {Coll(<<b>>) : b \in ByteStrings}

ParameterMaps ==
    {NilColl, Coll(<<>>)}
    \cup {Coll("privkeys" :> l) : l \in ByteLists}
    \cup {Coll(("x509s" :> l1) @@ ("privkey-passwords" :> l2)) :
            l1 \in {Coll(<<Bytes(<<7>>)>>), NilColl},
            l2 \in {Coll(<<NilBytes>>), Coll(<<Bytes(<<3, 12>>)>>)}}

DecryptConfigs == {DecryptConfig(m) : m \in ParameterMaps}

LayerDescriptors ==
    {OCIDescriptor(mediaType, "sha256:4bc4", size, urls, annotations, platform) :
        mediaType \in {"", "application/vnd.docker.image.rootfs.diff.tar.gzip+enc"},
        size \in {0, 5120},
        urls \in {NilColl, Coll(<<>>), Coll(<<"https://registry/blob">>)},
        annotations \in {NilColl, Coll(<<>>),
                         Coll("org.opencontainers.image.enc.keys.jwe" :> "ZXlK")},
        platform \in {NilPlatformPtr, PlatformPtr(Platform("linux", "arm64", "v8")),
                      PlatformPtr(Platform("linux", "amd64", ""))}}

\* the type tags of envelopes that do not hold a ProcessorPayload
ForeignTypeURLs == {SpecTypeURL, "com.ibm.research.v2.ProcessorPayload", ""}

VARIABLES
    p_pc,        \* "opt" | "unpack" | "send" | "receive" | "done" | "idle"
    p_config,    \* argument config of WithDecryptedImageUnpack
    p_desc,      \* argument desc of the unpack option
    p_context,   \* RemoteContext: Unpack, and how many UnpackOpts it holds
    p_payloads,  \* ApplyConfig.ProcessorPayloads
    p_wire,      \* the bytes on the side channel
    p_recv       \* what UnmarshalLayerToolDecryptData returned

payloadVars == <<p_pc, p_config, p_desc, p_context, p_payloads, p_wire, p_recv>>

NotReceived == [data |-> NilPayload, err |-> "none"]

PayloadIdle ==
    /\ p_pc = "idle"
    /\ p_config = DecryptConfig(NilColl)
    /\ p_desc = ZeroDescriptor
    /\ p_context = [Unpack |-> FALSE, UnpackOpts |-> 0]
    /\ p_payloads = NilColl
    /\ p_wire = <<>>
    /\ p_recv = NotReceived

PayloadStart ==
    /\ p_pc = "opt"
    /\ p_config \in DecryptConfigs
    /\ p_desc \in LayerDescriptors
    /\ p_context = [Unpack |-> FALSE, UnpackOpts |-> 0]
    /\ p_payloads = NilColl
    /\ p_wire = <<>>
    /\ p_recv = NotReceived

\* the RemoteOpt WithDecryptedImageUnpack(config) returns, applied
ApplyRemoteOpt ==
    /\ p_pc = "opt"
    /\ p_context' = [Unpack |-> TRUE, UnpackOpts |-> p_context.UnpackOpts + 1]
    /\ p_pc' = "unpack"
    /\ UNCHANGED <<p_config, p_desc, p_payloads, p_wire, p_recv>>

\* the unpack option, run for the layer desc
RunUnpackOpt ==
    /\ p_pc = "unpack"
    /\ LET r == MarshalAny(ProcessorPayload(p_config, p_desc))
           made == IF p_payloads.nil THEN <<>> ELSE p_payloads.elems
       IN  IF r.err # "nil"
           THEN p_pc' = "done" /\ UNCHANGED p_payloads
           ELSE /\ p_payloads' =
                      Coll(("io.containerd.layertool.tar" :> r.any)
                           @@ ("io.containerd.layertool.tar.gzip" :> r.any) @@ made)
                /\ p_pc' = "send"
    /\ UNCHANGED <<p_config, p_desc, p_context, p_wire, p_recv>>

\* the payload of one processor is written to the side channel
SendPayload(key) ==
    /\ p_pc = "send"
    /\ key \in DOMAIN p_payloads.elems
    /\ p_wire' = ProtoMarshal(p_payloads.elems[key])
    /\ p_pc' = "receive"
    /\ UNCHANGED <<p_config, p_desc, p_context, p_payloads, p_recv>>

\* an envelope with another type tag is written to the side channel
SendForeign(url) ==
    /\ p_pc = "send"
    /\ p_wire' = ProtoMarshal(TypesAny(url, MarshalPayload(ProcessorPayload(p_config, p_desc))))
    /\ p_pc' = "receive"
    /\ UNCHANGED <<p_config, p_desc, p_context, p_payloads, p_recv>>

\* the stream command reads the side channel and unmarshals it
ReceivePayload ==
    /\ p_pc = "receive"
    /\ p_recv' = UnmarshalLayerToolDecryptData(p_wire)
    /\ p_pc' = "done"
    /\ UNCHANGED <<p_config, p_desc, p_context, p_payloads, p_wire>>


(***************************************************************************)
(* The encrypt command: from the --recipient values to the combined        *)
(* encryption configuration (encryptCommand.Action).                       *)
(***************************************************************************)
\* processRecipientKeys(recipients): the loop, run to its end or to its first
\* error
RECURSIVE processRecipientKeysFrom(_, _, _)
processRecipientKeysFrom(st, recipients, i) ==
    IF i > Len(recipients) THEN st
    ELSE LET next == processRecipient(st, recipients[i])
         IN  IF next.err # NilErr THEN next
             ELSE processRecipientKeysFrom(next, recipients, i + 1)

processRecipientKeys(recipients) == processRecipientKeysFrom(RecipientsInit, recipients, 1)

\* the GPG installations the command can run on: gpg is found and has a
\* public key ring, gpg is found and its key ring cannot be read, gpg is not
\* found
GpgEnvironments == {"installed", "no pubring", "not installed"}

\* createGPGClient(context): encryption.NewGPGClient fails without a gpg binary
createGPGClient(env) ==
    IF env = "not installed" THEN Error("GPG not installed", <<>>, <<>>) ELSE NilErr

\* gpgClient.ReadGPGPubRingFile()
ReadGPGPubRingFile(env) ==
    IF env = "installed"
    THEN [data |-> FileContent("GPG PUBLIC KEYRING", "", <<>>), err |-> NilErr]
    ELSE [data |-> NoData, err |-> Error("Unable to read GPG public key ring", <<>>, <<>>)]

\* encconfig.CryptoConfig of an encryption, by the parameters it holds
EncryptCc(gpgRecipients, gpgPubRingFile, x509s, pubKeys) ==
    [gpgRecipients |-> gpgRecipients, gpgPubRingFile |-> gpgPubRingFile,
     x509s |-> x509s, pubkeys |-> pubKeys]

EmptyCc == EncryptCc(<<>>, <<>>, <<>>, <<>>)

EncryptWithGpg(gpgRecipients, gpgPubRingFile) ==
    EncryptCc(gpgRecipients, <<gpgPubRingFile>>, <<>>, <<>>)

EncryptWithPkcs7(x509s) == EncryptCc(<<>>, <<>>, x509s, <<>>)

EncryptWithJwe(pubKeys) == EncryptCc(<<>>, <<>>, <<>>, pubKeys)

\* encconfig.CombineCryptoConfigs: the parameters of all, key by key
RECURSIVE CombineCryptoConfigs(_)
CombineCryptoConfigs(ccs) ==
    IF Len(ccs) = 0 THEN EmptyCc
    ELSE LET rest == CombineCryptoConfigs(Tail(ccs))
         IN  EncryptCc(ccs[1].gpgRecipients \o rest.gpgRecipients,
                       ccs[1].gpgPubRingFile \o rest.gpgPubRingFile,
                       ccs[1].x509s \o rest.x509s,
                       ccs[1].pubkeys \o rest.pubkeys)

VARIABLES
    e_pc,          \* "recipients" | "gpg" | "keys" | "combine" | "layers" | "returned" | "idle"
    e_recipients,  \* context.StringSlice("recipient")
    e_env,         \* the GPG installation
    e_buckets,     \* gpgRecipients, pubKeys, x509s
    e_encryptCcs,  \* encryptCcs
    e_cc,          \* cc
    e_err          \* the error the command returned

encryptVars == <<e_pc, e_recipients, e_env, e_buckets, e_encryptCcs, e_cc, e_err>>

EncryptIdle ==
    /\ e_pc = "idle"
    /\ e_recipients = <<>>
    /\ e_env = "installed"
    /\ e_buckets = RecipientsInit
    /\ e_encryptCcs = <<>>
    /\ e_cc = EmptyCc
    /\ e_err = NilErr

EncryptStart ==
    /\ e_pc = "recipients"
    /\ e_recipients \in SeqsUpTo(RecipientStrings, MaxRecipients)
    /\ e_env \in GpgEnvironments
    /\ e_buckets = RecipientsInit
    /\ e_encryptCcs = <<>>
    /\ e_cc = EmptyCc
    /\ e_err = NilErr

\* return err
EncryptReturn(e) ==
    /\ e_err' = e
    /\ e_pc' = "returned"

\* recipients := ...; gpgRecipients, pubKeys, x509s, err := processRecipientKeys(recipients)
EncryptRecipients ==
    /\ e_pc = "recipients"
    /\ IF Len(e_recipients) = 0
       THEN /\ EncryptReturn(Error("no recipients given -- nothing to do", <<>>, <<>>))
            /\ UNCHANGED e_buckets
       ELSE LET r == processRecipientKeys(e_recipients)
            IN  IF r.err # NilErr
                THEN EncryptReturn(r.err) /\ UNCHANGED e_buckets
                ELSE /\ e_buckets' = r
                     /\ e_pc' = "gpg"
                     /\ UNCHANGED e_err
    /\ UNCHANGED <<e_recipients, e_env, e_encryptCcs, e_cc>>

\* _, err = createGPGClient(context); gpgInstalled := err == nil
gpgInstalled(env) == createGPGClient(env) = NilErr

\* if len(gpgRecipients) > 0 && gpgInstalled { ... }
EncryptGpg ==
    /\ e_pc = "gpg"
    /\ IF Len(e_buckets.gpgRecipients) > 0 /\ gpgInstalled(e_env)
       THEN LET clientErr == createGPGClient(e_env)
                ring == ReadGPGPubRingFile(e_env)
            IN  IF clientErr # NilErr
                THEN EncryptReturn(clientErr) /\ UNCHANGED e_encryptCcs
                ELSE IF ring.err # NilErr
                THEN EncryptReturn(ring.err) /\ UNCHANGED e_encryptCcs
                ELSE /\ e_encryptCcs' =
                           Append(e_encryptCcs, EncryptWithGpg(e_buckets.gpgRecipients, ring.data))
                     /\ e_pc' = "keys"
                     /\ UNCHANGED e_err
       ELSE /\ e_pc' = "keys"
            /\ UNCHANGED <<e_encryptCcs, e_err>>
    /\ UNCHANGED <<e_recipients, e_env, e_buckets, e_cc>>

\* pkcs7Cc, err := encconfig.EncryptWithPkcs7(x509s); jweCc, err := encconfig.EncryptWithJwe(pubKeys)
EncryptKeys ==
    /\ e_pc = "keys"
    /\ e_encryptCcs' = e_encryptCcs \o <<EncryptWithPkcs7(e_buckets.x509s),
                                         EncryptWithJwe(e_buckets.pubkeys)>>
    /\ e_pc' = "combine"
    /\ UNCHANGED <<e_recipients, e_env, e_buckets, e_cc, e_err>>

\* cc := encconfig.CombineCryptoConfigs(encryptCcs); the command goes on to
\* the layers of the image and to EncryptImage with cc
EncryptCombine ==
    /\ e_pc = "combine"
    /\ e_cc' = CombineCryptoConfigs(e_encryptCcs)
    /\ e_pc' = "layers"
    /\ UNCHANGED <<e_recipients, e_env, e_buckets, e_encryptCcs, e_err>>

(***************************************************************************)
(* The stream command: the plain layer is copied to the output in chunks   *)
(* (streamCommand.Action).  The plain layer is L bytes; a byte is named by *)
(* its position, and what reached the output is the sequence of the        *)
(* slices [lo, hi) of the plain layer that were written.                   *)
(***************************************************************************)
\* io.CopyN(layerOutFile, plainLayerReader, 10*1024)
ChunkSize == 10240

\* the longest plain layer, in whole chunks
MaxChunks == 2

StreamLengths == {k * ChunkSize + r : k \in 0..MaxChunks, r \in {0, 1, ChunkSize - 1}}

\* what can go wrong while copying: the reader fails at a position of the
\* plain layer (a read error, or the encrypted input ending too early), or
\* the output refuses the byte at a position
NoFault == [kind |-> "none", at |-> 0]

Fault(kind, at) == [kind |-> kind, at |-> at]

FaultsOf(len) ==
    {NoFault}
    \cup {Fault(kind, at) : kind \in {"read error", "unexpected EOF"},
                            at \in {0, 1, ChunkSize, ChunkSize + 1, len} \cap 0..len}
    \cup {Fault("write error", at) : at \in {0, ChunkSize - 1, ChunkSize} \cap 0..(len - 1)}

\* io.CopyN(dst, src, n) with the reader at position pos: how many bytes it
\* moves and the error it returns.  The reader is limited to n bytes, so a
\* fault at pos + n or later is not met in this call; fewer than n bytes
\* without an error is io.EOF.
CopyN(pos, len, fault, n) ==
    IF fault.kind # "none" /\ fault.at >= pos /\ fault.at < pos + n /\ fault.at <= len
    THEN [written |-> fault.at - pos, err |-> fault.kind]
    ELSE IF len - pos < n
    THEN [written |-> len - pos, err |-> "EOF"]
    ELSE [written |-> n, err |-> "nil"]

BreaksOnAnyEOF(err) == err \in {"EOF", "unexpected EOF"}

\* if err == io.EOF { break }
BreaksLoop(err) == err = "EOF"

VARIABLES
    s_pc,       \* "decrypt" | "copy" | "returned" | "idle"
    s_len,      \* L, the length of the plain layer
    s_fault,    \* what goes wrong while copying
    s_decrypt,  \* the error of encryption.DecryptLayer
    s_pos,      \* position of plainLayerReader
    s_out,      \* the slices written to layerOutFile
    s_iter,     \* iterations of the copy loop so far
    s_err       \* the error the command returned

streamVars == <<s_pc, s_len, s_fault, s_decrypt, s_pos, s_out, s_iter, s_err>>

StreamIdle ==
    /\ s_pc = "idle"
    /\ s_len = 0
    /\ s_fault = NoFault
    /\ s_decrypt = "nil"
    /\ s_pos = 0
    /\ s_out = <<>>
    /\ s_iter = 0
    /\ s_err = "none"

StreamStart ==
    /\ s_pc = "decrypt"
    /\ s_len \in StreamLengths
    /\ s_fault \in FaultsOf(s_len)
    /\ s_decrypt \in {"nil", "no suitable key found"}
    /\ s_pos = 0
    /\ s_out = <<>>
    /\ s_iter = 0
    /\ s_err = "none"

\* _, plainLayerReader, _, err := encryption.DecryptLayer(...)
StreamDecryptLayer ==
    /\ s_pc = "decrypt"
    /\ IF s_decrypt # "nil"
       THEN s_err' = "call to DecryptLayer failed" /\ s_pc' = "returned"
       ELSE s_pc' = "copy" /\ UNCHANGED s_err
    /\ UNCHANGED <<s_len, s_fault, s_decrypt, s_pos, s_out, s_iter>>

\* one iteration of the loop; the break is followed by return nil
StreamCopyN ==
    /\ s_pc = "copy"
    /\ LET r == CopyN(s_pos, s_len, s_fault, ChunkSize)
       IN  /\ s_pos' = s_pos + r.written
           /\ s_out' = IF r.written > 0 THEN Append(s_out, <<s_pos, s_pos + r.written>>)
                       ELSE s_out
           /\ s_iter' = s_iter + 1
           /\ IF r.err = "nil" THEN UNCHANGED <<s_pc, s_err>>
              ELSE IF BreaksLoop(r.err) THEN s_err' = "nil" /\ s_pc' = "returned"
              ELSE s_err' = "could not copy data" /\ s_pc' = "returned"
    /\ UNCHANGED <<s_len, s_fault, s_decrypt>>

(***************************************************************************)
(* The predicate createLayerFilter returns.                                *)
(***************************************************************************)
\* lf := func(d ocispec.Descriptor) bool: whether the digest of d is the
\* digest of one of descs, the descriptors filterLayerDescriptors selected
LayerFilter(descs, d) == \E k \in 1..Len(descs) : descs[k].digest = d.digest

(***************************************************************************)
(* Specifications.  Each one runs one operation; the state of the others   *)
(* stays idle.                                                             *)
(***************************************************************************)
vars == <<cryptVars, filterVars, recipientVars, keyVars, payloadVars, encryptVars, streamVars>>

\* ---- Spec: calls of EncryptImage / DecryptImage ----
notCrypt == <<filterVars, recipientVars, keyVars, payloadVars, encryptVars, streamVars>>

Init == CryptInit /\ FilterIdle /\ RecipientsIdle /\ KeysIdle /\ PayloadIdle /\ EncryptIdle /\ StreamIdle

Next ==
    \/ /\ \E o \in {"encrypt", "decrypt"}, img \in images, n \in ImageNames,
             platforms \in CallPlatforms, layers \in CallLayers :
               Call(o, img, n, platforms, layers)
       /\ UNCHANGED notCrypt
    \/ ParsePlatforms /\ UNCHANGED notCrypt
    \/ CreateLayerFilterOk /\ UNCHANGED notCrypt
    \/ CreateLayerFilterErr /\ UNCHANGED notCrypt
    \/ WithLeaseOk /\ UNCHANGED notCrypt
    \/ WithLeaseErr /\ UNCHANGED notCrypt
    \/ (\E e \in TransformErrors : TransformErr(e)) /\ UNCHANGED notCrypt
    \/ /\ \E modified \in BOOLEAN :
             TransformOk(IF modified THEN TransformedTarget(cop, image.target)
                                     ELSE image.target,
                         modified)
       /\ UNCHANGED notCrypt
    \/ CreateOk /\ UNCHANGED notCrypt
    \/ CreateErr /\ UNCHANGED notCrypt

Spec == Init /\ [][Next]_vars

\* ---- SpecFilter: one run of filterLayerDescriptors ----
notFilter == <<cryptVars, recipientVars, keyVars, payloadVars, encryptVars, streamVars>>

InitFilter == FilterStart /\ CryptInit /\ RecipientsIdle /\ KeysIdle /\ PayloadIdle /\ EncryptIdle /\ StreamIdle

NextFilter ==
    \/ FilterIter /\ UNCHANGED notFilter
    \/ FilterReturn /\ UNCHANGED notFilter

SpecFilter == InitFilter /\ [][NextFilter]_vars

\* ---- SpecRecipients: one run of processRecipientKeys ----
notRecipients == <<cryptVars, filterVars, keyVars, payloadVars, encryptVars, streamVars>>

InitRecipients == RecipientsStart /\ CryptInit /\ FilterIdle /\ KeysIdle /\ PayloadIdle /\ EncryptIdle /\ StreamIdle

NextRecipients ==
    \/ RecipientsIter /\ UNCHANGED notRecipients
    \/ RecipientsReturn /\ UNCHANGED notRecipients

SpecRecipients == InitRecipients /\ [][NextRecipients]_vars

\* ---- SpecKeys: one run of processPrivateKeyFiles ----
notKeys == <<cryptVars, filterVars, recipientVars, payloadVars, encryptVars, streamVars>>

InitKeys == KeysStart /\ CryptInit /\ FilterIdle /\ RecipientsIdle /\ PayloadIdle /\ EncryptIdle /\ StreamIdle

NextKeys ==
    \/ KeysIter /\ UNCHANGED notKeys
    \/ KeysReturn /\ UNCHANGED notKeys

SpecKeys == InitKeys /\ [][NextKeys]_vars

\* ---- SpecPayload: one payload from WithDecryptedImageUnpack to the stream command ----
notPayload == <<cryptVars, filterVars, recipientVars, keyVars, encryptVars, streamVars>>

InitPayload == PayloadStart /\ CryptInit /\ FilterIdle /\ RecipientsIdle /\ KeysIdle /\ EncryptIdle /\ StreamIdle

NextPayload ==
    \/ ApplyRemoteOpt /\ UNCHANGED notPayload
    \/ RunUnpackOpt /\ UNCHANGED notPayload
    \/ /\ \E key \in {"io.containerd.layertool.tar", "io.containerd.layertool.tar.gzip"} :
             SendPayload(key)
       /\ UNCHANGED notPayload
    \/ (\E url \in ForeignTypeURLs : SendForeign(url)) /\ UNCHANGED notPayload
    \/ ReceivePayload /\ UNCHANGED notPayload

SpecPayload == InitPayload /\ [][NextPayload]_vars

\* ---- SpecEncrypt: the encrypt command up to its combined configuration ----
notEncrypt == <<cryptVars, filterVars, recipientVars, keyVars, payloadVars, streamVars>>

InitEncrypt ==
    EncryptStart /\ CryptInit /\ FilterIdle /\ RecipientsIdle /\ KeysIdle /\ PayloadIdle /\ StreamIdle

NextEncrypt ==
    \/ EncryptRecipients /\ UNCHANGED notEncrypt
    \/ EncryptGpg /\ UNCHANGED notEncrypt
    \/ EncryptKeys /\ UNCHANGED notEncrypt
    \/ EncryptCombine /\ UNCHANGED notEncrypt

SpecEncrypt == InitEncrypt /\ [][NextEncrypt]_vars

\* ---- SpecStream: one run of the stream command from DecryptLayer on ----
notStream == <<cryptVars, filterVars, recipientVars, keyVars, payloadVars, encryptVars>>

InitStream ==
    /\ StreamStart
    /\ CryptInit /\ FilterIdle /\ RecipientsIdle /\ KeysIdle /\ PayloadIdle /\ EncryptIdle

NextStream ==
    \/ StreamDecryptLayer /\ UNCHANGED notStream
    \/ StreamCopyN /\ UNCHANGED notStream

SpecStream == InitStream /\ [][NextStream]_vars

\* the command keeps running until it returns
SpecStreamLive == InitStream /\ [][NextStream]_vars /\ WF_vars(NextStream)

(***************************************************************************)
(* Properties of EncryptImage / DecryptImage.                              *)
(***************************************************************************)
CountOf(log, x) == Cardinality({k \in 1..Len(log) : log[k] = x})

\* calls that mutate content or register an image
MutatingCalls == {"imgenc.EncryptImage", "imgenc.DecryptImage", "Create", "Create failed"}

\* the transform of the running call returned without error
TransformSucceeded == tres.called /\ tres.err = "nil"

\* C1: once WithLease has succeeded its release function is called exactly
\* once on every exit path; the transform and the registration happen only
\* while the lease is held; the release function is never called when the
\* acquisition failed.
C1_LeaseReleasedOnce ==
    /\ pc = "returned" =>
          /\ CountOf(calls, "done") = (IF CountOf(calls, "WithLease") = 1 THEN 1 ELSE 0)
          /\ leases = 0
    /\ CountOf(calls, "done") <= 1
    /\ CountOf(calls, "WithLease failed") > 0 => CountOf(calls, "done") = 0
    /\ \A k \in 1..Len(calls) :
          calls[k] \in MutatingCalls =>
              /\ \E j \in 1..(k - 1) : calls[j] = "WithLease"
              /\ \A j \in 1..(k - 1) : calls[j] # "done"
    /\ pc \in {"transform", "register"} => leases = 1

\* C1 witness: a call that acquired the lease, transformed, failed to
\* register the image, and released the lease on that error return.
C1_Witness ==
    /\ pc = "returned"
    /\ ret.err = "ErrUnavailable"
    /\ calls = <<"WithLease", "imgenc.DecryptImage", "Create failed", "done">>
    /\ leases = 0

\* C2: when the transform succeeds and reports modified = false, the call
\* returns the original image handle with no error, and no image record is
\* created or changed.
C2_UnmodifiedIsNoOp ==
    (TransformSucceeded /\ ~tres.modified /\ pc # "transform") =>
        /\ pc = "returned"
        /\ ret = [image |-> image, err |-> "nil"]
        /\ images = images0
        /\ CountOf(calls, "Create") = 0
        /\ CountOf(calls, "Create failed") = 0

\* C2 witness: the second call of a client finds nothing to encrypt and
\* returns the handle it was given, the store as it was.
C2_Witness ==
    /\ pc = "returned"
    /\ ncalls = 2
    /\ cop = "encrypt"
    /\ TransformSucceeded
    /\ ~tres.modified
    /\ ret.image = image
    /\ Cardinality(images) = 2

\* the record a call that modified the image is to create
ExpectedRecord == ImageRecord(name, desc, image.labels)

\* C3 (as claimed): whenever the transform succeeds and reports modified =
\* true, exactly one image record is created, named newName, with the
\* transform's descriptor as target and the original image's labels, and the
\* returned handle refers to it.
C3_ModifiedAlwaysRegisters ==
    (pc = "returned" /\ TransformSucceeded /\ tres.modified) =>
        /\ images \ images0 = {ExpectedRecord}
        /\ images0 \subseteq images
        /\ ret = [image |-> ExpectedRecord, err |-> "nil"]

\* C3 (amended): whenever the transform succeeds and reports modified = true,
\* the image service is asked exactly once to create the record (newName, the
\* transform's descriptor, the original labels); when it accepts, exactly
\* that one record is created and the returned handle refers to it; when it
\* refuses, no record is created or changed and the call returns nil and the
\* error.
C3_ModifiedRegistersOrFails ==
    (pc = "returned" /\ TransformSucceeded /\ tres.modified) =>
        /\ CountOf(calls, "Create") + CountOf(calls, "Create failed") = 1
        /\ images0 \subseteq images
        /\ desc = TransformedTarget(cop, image.target)
        /\ IF CountOf(calls, "Create") = 1
           THEN /\ images \ images0 = {ExpectedRecord}
                /\ ret = [image |-> ExpectedRecord, err |-> "nil"]
           ELSE /\ images = images0
                /\ ret.image = NilImage
                /\ ret.err \notin {"nil", "none"}

\* C3 witness: an encrypt call that modified the image registered it as
\* app:enc, with the new descriptor and the labels of the original.
C3_Witness ==
    /\ pc = "returned"
    /\ TransformSucceeded
    /\ tres.modified
    /\ ret.err = "nil"
    /\ ret.image = ImageRecord("app:enc", <<"encrypt", "sha256:app">>, {"io.cri=managed"})
    /\ ret.image \in images
    /\ ret.image \notin images0

(***************************************************************************)
(* Properties of filterLayerDescriptors.                                   *)
(***************************************************************************)
\* the platform pointers of a descriptor list
AddrsOf(alldescs) == {alldescs[k].platform : k \in 1..Len(alldescs)}

\* the positions of the layers of platform a, and how many they are
PositionsOf(alldescs, a) == {k \in 1..Len(alldescs) : alldescs[k].platform = a}

NumLayers(alldescs, a) == Cardinality(PositionsOf(alldescs, a))

\* the zero-based position of alldescs[k] within its own platform
IndexInPlatform(alldescs, k) ==
    Cardinality({j \in 1..(k - 1) : alldescs[j].platform = alldescs[k].platform})

\* the layer of platform a at zero-based position i
LayerAt(alldescs, a, i) ==
    alldescs[CHOOSE k \in PositionsOf(alldescs, a) : IndexInPlatform(alldescs, k) = i]

\* whether the user's platform filter lets platform a through
PassesFilter(a, filter) ==
    Len(filter) = 0
    \/ \E k \in 1..Len(filter) : Normalize(PlatformHeap[a]) = Normalize(filter[k])

OfPlatform(descs, a) == {d \in Range(descs) : d.platform = a}

\* C4 (as claimed): for every platform P with N layers and every i in [0, N),
\* under every platform filter, the set of descriptors selected with [i]
\* equals the set selected with [i - N].
C4_SymmetryWholeSet ==
    (f_pc = "done" /\ Len(f_layers) = 1) =>
        \A a \in AddrsOf(f_alldescs) :
            LET N == NumLayers(f_alldescs, a)
                i == f_layers[1]
            IN  (i >= 0 /\ i < N) =>
                    Range(f_ret.descs) =
                    Range(filterLayerDescriptors(f_alldescs, <<i - N>>, f_pl).descs)

\* C4 (amended): for every platform P with N layers and every i in [0, N),
\* under every platform filter, the descriptors OF P selected with [i] are
\* the descriptors of P selected with [i - N].
C4_SymmetryPerPlatform ==
    (f_pc = "done" /\ Len(f_layers) = 1) =>
        \A a \in AddrsOf(f_alldescs) :
            LET N == NumLayers(f_alldescs, a)
                i == f_layers[1]
            IN  (i >= 0 /\ i < N) =>
                    OfPlatform(f_ret.descs, a) =
                    OfPlatform(filterLayerDescriptors(f_alldescs, <<i - N>>, f_pl).descs, a)

\* C4 witness: selector [1] has run over two platforms with different layer
\* counts and selected the second layer of the three-layer platform.
C4_Witness ==
    /\ f_pc = "done"
    /\ f_layers = <<1>>
    /\ f_pl = <<>>
    /\ \E a, b \in AddrsOf(f_alldescs) :
          /\ NumLayers(f_alldescs, a) = 3
          /\ NumLayers(f_alldescs, b) = 2
          /\ LayerAt(f_alldescs, a, 1) \in Range(f_ret.descs)
          /\ OfPlatform(filterLayerDescriptors(f_alldescs, <<-2>>, f_pl).descs, a)
                = {LayerAt(f_alldescs, a, 1)}

\* C5: negative selectors are resolved per platform: selector [-1] selects
\* exactly the last layer of every platform that passes the platform filter
\* (one descriptor when the filter names one platform of the image, the last
\* layer of each platform when there is no filter), whatever the layer
\* counts of the platforms.
C5_NegativePerPlatform ==
    (f_pc = "done" /\ f_layers = <<-1>>) =>
        LET sel == {a \in AddrsOf(f_alldescs) : PassesFilter(a, f_pl)}
        IN  /\ Range(f_ret.descs) =
                  {LayerAt(f_alldescs, a, NumLayers(f_alldescs, a) - 1) : a \in sel}
            /\ Len(f_ret.descs) = Cardinality(sel)
            /\ \A k \in 1..Len(f_ret.layerInfos) :
                  /\ f_ret.layerInfos[k].Descriptor = f_ret.descs[k]
                  /\ f_ret.layerInfos[k].Index =
                        NumLayers(f_alldescs, f_ret.descs[k].platform) - 1

\* C5 witness: linux/amd64 with 3 layers, linux/arm64 with 2, selector [-1],
\* filter [linux/amd64]: one descriptor, layer 2 of linux/amd64.
C5_Witness ==
    /\ f_pc = "done"
    /\ f_layers = <<-1>>
    /\ f_pl = <<Platform("linux", "amd64", "")>>
    /\ AddrsOf(f_alldescs) = {1, 2}
    /\ NumLayers(f_alldescs, 1) = 3
    /\ NumLayers(f_alldescs, 2) = 2
    /\ f_ret.descs = <<LayerAt(f_alldescs, 1, 2)>>
    /\ f_ret.layerInfos = <<LayerInfo(2, LayerAt(f_alldescs, 1, 2))>>

\* C6: the running layer index is zero-based and contiguous within each
\* platform, in manifest order, and the layer total is the platform's number
\* of layers; selector [i] selects exactly the i-th layer of each platform
\* that passes the filter, and every emitted LayerInfo.Index is the layer's
\* position within its platform.
C6_IndexPerPlatform ==
    /\ (f_pc \in {"loop", "done"} /\ f_i > 1) =>
          /\ f_st.curplat = f_alldescs[f_i - 1].platform
          /\ f_st.layerIndex = IndexInPlatform(f_alldescs, f_i - 1)
          /\ f_st.layersTotal = NumLayers(f_alldescs, f_st.curplat)
    /\ f_pc \in {"loop", "done"} =>
          \A k \in 1..Len(f_st.layerInfos) :
              LET li == f_st.layerInfos[k]
              IN  /\ li.Descriptor = f_st.descs[k]
                  /\ li.Descriptor = LayerAt(f_alldescs, li.Descriptor.platform, li.Index)
    /\ (f_pc = "done" /\ Len(f_layers) = 1 /\ f_layers[1] >= 0) =>
          Range(f_ret.descs) =
              {LayerAt(f_alldescs, a, f_layers[1]) :
                  a \in {b \in AddrsOf(f_alldescs) :
                            PassesFilter(b, f_pl) /\ f_layers[1] < NumLayers(f_alldescs, b)}}

\* C6 witness: a single-platform image, no platform filter, selector [0]: the
\* first layer, with index 0.
C6_Witness ==
    /\ f_pc = "done"
    /\ Cardinality(AddrsOf(f_alldescs)) = 1
    /\ Len(f_alldescs) = 3
    /\ f_pl = <<>>
    /\ f_layers = <<0>>
    /\ f_ret.layerInfos = <<LayerInfo(0, f_alldescs[1])>>

(***************************************************************************)
(* Properties of processRecipientKeys.                                     *)
(***************************************************************************)
PgpPrefix == <<"p", "g", "p", ":">>

JwePrefix == <<"j", "w", "e", ":">>

Pkcs7Prefix == <<"p", "k", "c", "s", "7", ":">>

StartsWith(str, prefix) == Len(str) >= Len(prefix) /\ SubSeq(str, 1, Len(prefix)) = prefix

AfterPrefix(str, prefix) == SubSeq(str, Len(prefix) + 1, Len(str))

\* the recipient is well formed and its file, if it names one, holds what its
\* prefix promises
GoodRecipient(str) ==
    \/ StartsWith(str, PgpPrefix)
    \/ /\ StartsWith(str, JwePrefix)
       /\ AfterPrefix(str, JwePrefix) \in DOMAIN FileSystem
       /\ FileSystem[AfterPrefix(str, JwePrefix)].kind = "PUBLIC KEY"
    \/ /\ StartsWith(str, Pkcs7Prefix)
       /\ AfterPrefix(str, Pkcs7Prefix) \in DOMAIN FileSystem
       /\ FileSystem[AfterPrefix(str, Pkcs7Prefix)].kind = "CERTIFICATE"

\* the inputs with one prefix, in input order
RECURSIVE WithPrefix(_, _)
WithPrefix(strs, prefix) ==
    IF Len(strs) = 0 THEN <<>>
    ELSE (IF StartsWith(strs[1], prefix) THEN <<AfterPrefix(strs[1], prefix)>> ELSE <<>>)
         \o WithPrefix(Tail(strs), prefix)

ContentsOf(paths) == [k \in 1..Len(paths) |-> FileSystem[paths[k]]]

\* C7: recipient classification is mutually exclusive and exhaustive: the
\* call either fails and returns no bucket, or places every input in exactly
\* the bucket of its pgp: / jwe: / pkcs7: prefix (the bucket sizes sum to the
\* number of inputs); an input without a colon, with another prefix, or whose
\* jwe: / pkcs7: file is not a public key / a certificate makes the call
\* fail and is never placed in another bucket.
C7_RecipientPartition ==
    r_pc = "done" =>
        IF \A k \in 1..Len(r_recipients) : GoodRecipient(r_recipients[k])
        THEN /\ r_ret.err = NilErr
             /\ r_ret.gpgRecipients = WithPrefix(r_recipients, PgpPrefix)
             /\ r_ret.pubkeys = ContentsOf(WithPrefix(r_recipients, JwePrefix))
             /\ r_ret.x509s = ContentsOf(WithPrefix(r_recipients, Pkcs7Prefix))
             /\ Len(r_ret.gpgRecipients) + Len(r_ret.pubkeys) + Len(r_ret.x509s)
                    = Len(r_recipients)
        ELSE /\ r_ret.err # NilErr
             /\ r_ret.gpgRecipients = <<>>
             /\ r_ret.pubkeys = <<>>
             /\ r_ret.x509s = <<>>

\* C7 witness: jwe:k (a public key) and pkcs7:c (a certificate) give one
\* public key, one certificate and no PGP recipient.
C7_Witness ==
    /\ r_pc = "done"
    /\ r_recipients = << <<"j", "w", "e", ":", "k">>, <<"p", "k", "c", "s", "7", ":", "c">> >>
    /\ r_ret.err = NilErr
    /\ r_ret.gpgRecipients = <<>>
    /\ r_ret.pubkeys = <<FileSystem[<<"k">>]>>
    /\ r_ret.x509s = <<FileSystem[<<"c">>]>>

(***************************************************************************)
(* Properties of processPrivateKeyFiles.                                   *)
(***************************************************************************)
PasswordErrorKinds ==
    {"Missing password for encrypted private key",
     "Wrong password: could not decrypt private key"}

\* C8: when parsing a key file as a private key reports a password error,
\* the call returns that error at once: the file is not tried as a GPG
\* secret keyring, no "unidentified private key" error is produced, no later
\* input is processed, and no bucket is returned.
C8_PasswordErrorPropagates ==
    \A k \in 1..Len(k_st.log) :
        LET c == k_st.log[k]
        IN  (c.fn = "IsPrivateKey" /\ c.err.kind \in PasswordErrorKinds) =>
                /\ k = Len(k_st.log)
                /\ k_pc = "done"
                /\ k_ret.err = c.err
                /\ k_i = c.input
                /\ k_ret.gpgSecretKeyRingFiles = <<>>
                /\ k_ret.gpgSecretKeyPasswords = <<>>
                /\ k_ret.privkeys = <<>>
                /\ k_ret.privkeysPasswords = <<>>

\* C8 witness: the key p was accepted, then e:pass=x (the wrong password for
\* e) ended the call with the password error and no private keys.
C8_Witness ==
    /\ k_pc = "done"
    /\ Len(k_keyFilesAndPwds) >= 2
    /\ k_keyFilesAndPwds[1] = <<"p">>
    /\ k_keyFilesAndPwds[2] = <<"e", ":", "p", "a", "s", "s", "=", "x">>
    /\ k_ret.err.kind = "Wrong password: could not decrypt private key"
    /\ k_ret.privkeys = <<>>
    /\ Len(k_st.log) = 2

\* the text before the first colon, and the text after it
BeforeFirstColon(str) == SubSeq(str, 1, StringsIndex(str, ":"))

AfterFirstColon(str) == SubSeq(str, StringsIndex(str, ":") + 2, Len(str))

\* C9: for every filename:passwordSpec the key file is the text before the
\* first colon and the password used for the key is what the text after the
\* first colon resolves to, also when that text contains further colons.
C9_SplitOnFirstColon ==
    \A k \in 1..Len(k_st.log) :
        LET c == k_st.log[k]
            str == k_keyFilesAndPwds[c.input]
        IN  (c.fn = "IsPrivateKey" /\ StringsIndex(str, ":") >= 0) =>
                /\ c.keyfile = BeforeFirstColon(str)
                /\ c.password = processPwdString(AfterFirstColon(str)).pwd

(***************************************************************************)
(* Properties of the side-channel payload.                                 *)
(***************************************************************************)
\* two slices or maps with the same content (a nil one and an empty one have
\* the same content)
SameContent(c1, c2) == c1.elems = c2.elems

\* two platform pointers that are both nil or point to equal values
SamePlatform(p1, p2) == p1.nil = p2.nil /\ p1.value = p2.value

\* equality of descriptors, field by field
SameDescriptor(d1, d2) ==
    /\ d1.MediaType = d2.MediaType
    /\ d1.Digest = d2.Digest
    /\ d1.Size = d2.Size
    /\ SameContent(d1.URLs, d2.URLs)
    /\ SameContent(d1.Annotations, d2.Annotations)
    /\ SamePlatform(d1.Platform, d2.Platform)

\* the type tag of the envelope on the side channel
WireTypeURL == ProtoField(p_wire, 1, "")

RecipientsIn(cc) == Len(cc.gpgRecipients) + Len(cc.pubkeys) + Len(cc.x509s)

\* C11: the encrypt command swallows no recipient: when a recipient went to
\* the PGP bucket and the GPG client cannot be created the command returns an
\* error, and whenever it goes on to encrypt, every supplied recipient is in
\* the combined configuration.
C11_NoRecipientLeftOut ==
    /\ e_pc \in {"keys", "combine", "layers"} /\ Len(e_buckets.gpgRecipients) > 0 =>
           createGPGClient(e_env) = NilErr
    /\ e_pc = "layers" => RecipientsIn(e_cc) = Len(e_recipients)

(***************************************************************************)
(* The order of the steps of EncryptImage / DecryptImage.                   *)
(***************************************************************************)
\* the positions of x in the call log
PositionsIn(log, x) == {k \in 1..Len(log) : log[k] = x}

\* the call returned nil and an error and left the image service as it was
FailedWithoutRecord == ret.image = NilImage /\ ret.err # "nil" /\ images = images0

\* what holds in every state of a call
C12_State ==
    /\ \A i \in PositionsIn(calls, "WithLease") :
          \A j \in PositionsIn(calls, Transform) \cup PositionsIn(calls, "Create")
                   \cup PositionsIn(calls, "Create failed") : i < j
    /\ \A i \in PositionsIn(calls, Transform) :
          \A j \in PositionsIn(calls, "Create") \cup PositionsIn(calls, "Create failed") : i < j
    /\ PositionsIn(calls, "WithLease failed") # {} =>
          /\ PositionsIn(calls, Transform) = {}
          /\ ~tres.called
          /\ pc = "returned" /\ ret.err = "ErrLease" /\ FailedWithoutRecord
    /\ pc = "returned" /\ parsePlatformArray(optConfig.Platforms).err # "nil" =>
          /\ ret.err = parsePlatformArray(optConfig.Platforms).err
          /\ calls = <<>>
          /\ ~tres.called
          /\ FailedWithoutRecord
    /\ pc = "returned" /\ tres.called /\ tres.err # "nil" =>
          /\ ret.err = tres.err
          /\ PositionsIn(calls, "Create") \cup PositionsIn(calls, "Create failed") = {}
          /\ FailedWithoutRecord

\* what holds of every step of a call: a step is entered only from the step
\* before it, and a platform parse error returns from the first step
C12_Step ==
    /\ pc' = "filter" /\ pc # "filter" =>
          pc = "parse" /\ parsePlatformArray(optConfig.Platforms).err = "nil"
    /\ pc' = "lease" /\ pc # "lease" => pc = "filter"
    /\ pc' = "transform" /\ pc # "transform" =>
          pc = "lease" /\ leases' = leases + 1 /\ calls' = Append(calls, "WithLease")
    /\ pc' = "register" /\ pc # "register" =>
          pc = "transform" /\ tres'.called /\ tres'.err = "nil"
    /\ pc = "parse" /\ parsePlatformArray(optConfig.Platforms).err # "nil" =>
          pc' \in {"parse", "returned"} /\ lf' = lf /\ calls' = calls /\ leases' = leases

\* C12: EncryptImage and DecryptImage run platform parsing, layer-filter
\* construction, lease acquisition, transform and registration in this order
\* and the first failing step ends the call: a platform parse error returns
\* before layer selection and before a lease is requested, after a failed
\* lease acquisition the transform is never invoked, a transform error is
\* returned as it is, and each of these returns a nil image and creates no
\* image record.
C12_StepsInOrder == [](C12_State) /\ [][C12_Step]_vars

\* C12 witness: a first call registered an image; the second call failed to
\* acquire its lease and returned that error without calling the transform.
C12_Witness ==
    /\ pc = "returned"
    /\ ncalls = 2
    /\ calls = <<"WithLease failed">>
    /\ ret = [image |-> NilImage, err |-> "ErrLease"]
    /\ Cardinality(images) = 2
    /\ images = images0

(***************************************************************************)
(* Properties of the stream command.                                       *)
(***************************************************************************)
\* the slices written are one after the other from position 0, none empty
\* and none longer than a chunk
WrittenInOrder ==
    /\ \A k \in 1..Len(s_out) :
          /\ s_out[k][1] < s_out[k][2]
          /\ s_out[k][2] - s_out[k][1] <= ChunkSize
          /\ s_out[k][1] = (IF k = 1 THEN 0 ELSE s_out[k - 1][2])
    /\ s_pos = (IF Len(s_out) = 0 THEN 0 ELSE s_out[Len(s_out)][2])

C13_State ==
    /\ WrittenInOrder
    /\ s_pos <= s_len
    /\ s_pc = "returned" /\ s_decrypt = "nil" /\ s_fault = NoFault =>
          /\ s_err = "nil"
          /\ s_pos = s_len
          /\ s_iter = (s_len \div ChunkSize) + 1
    /\ s_pc = "returned" /\ s_decrypt = "nil" /\ s_fault # NoFault =>
          /\ s_err = "could not copy data"
          /\ s_pos = s_fault.at
          /\ s_iter = (s_fault.at \div ChunkSize) + 1

\* C13: the copy loop of the stream command terminates for every plain layer
\* of L >= 0 bytes, L = 0 and whole multiples of the chunk of 10240 bytes
\* included: then exactly the L bytes were written in order, no iteration
\* moved more than 10240 bytes and the command returns success; a copy error
\* other than the clean end of the stream ends the loop at once with an error.
C13_CopyLoopTerminates == [](C13_State) /\ <>(s_pc = "returned")

\* C13 witness: a plain layer of exactly two chunks was copied in three
\* iterations, the third one moving nothing, and the command succeeded.
C13_Witness ==
    /\ s_pc = "returned"
    /\ s_len = 2 * ChunkSize
    /\ s_out = <<<<0, ChunkSize>>, <<ChunkSize, 2 * ChunkSize>>>>
    /\ s_iter = 3
    /\ s_err = "nil"

(***************************************************************************)
(* Properties of the layer filter handed to the transform.                 *)
(***************************************************************************)
\* whether the layer at position k of alldescs passes the user's filters:
\* its index within its platform (or the negative index for it) is asked
\* for, and its platform is
PassesUserFilters(alldescs, k, layers, filter) ==
    LET a == alldescs[k].platform
        index == IndexInPlatform(alldescs, k)
        total == NumLayers(alldescs, a)
    IN  /\ Len(layers) = 0 \/ \E j \in 1..Len(layers) : layers[j] \in {index, index - total}
        /\ PassesFilter(a, filter)

\* C14: the predicate built by createLayerFilter answers true for a layer of
\* the image exactly when the layer's index within its platform and its
\* platform pass the user's filters, also when layers of different platforms
\* or at different indices have the same digest.
C14_FilterIsSelection ==
    f_pc = "done" =>
        \A k \in 1..Len(f_alldescs) :
            LayerFilter(f_ret.descs, f_alldescs[k])
                <=> PassesUserFilters(f_alldescs, k, f_layers, f_pl)

====
